---------------------------- MODULE Spec2Model ----------------------------
(***************************************************************************)
(* Model of the burrow pass of the mouse tracking pipeline                 *)
(* (src/mousetracking/algorithm/pass4.py, class FourthPass).               *)
(*                                                                         *)
(* The module holds one specification per component:                       *)
(*   SpecResolver  connect_burrow_chunks on one chunk list                 *)
(*   SpecTracks    add_burrows_to_tracks over a sequence of frames         *)
(*   SpecMask      the burrow mask through find_burrows, frame by frame    *)
(*   SpecProcess   process: setup, the frame loop, interrupts, cleanup     *)
(*   SpecBridge    _connect_burrow_to_structure on one contour             *)
(*                                                                         *)
(* Indices are 1-based here and 0-based in the Python source; the order of *)
(* the indices is the same.  Distances are real numbers in the source and  *)
(* naturals here: 0 is "touching", 1 stands for a distance in (0, 1], and  *)
(* larger values for distances above 1.                                    *)
(***************************************************************************)
EXTENDS Naturals, Integers, Sequences, FiniteSets, TLC

VARIABLES
    \* ---- connect_burrow_chunks (the connectivity resolver)
    burrow_chunks,   \* the list of outlines; each slot references one object
    ground_dist,     \* ground_dist[k]: distance of chunk k to the ground line
    burrow_dist,     \* burrow_dist[x][y]: distance between chunks, Inf on the diagonal
    connected,       \* list of chunk indices linked to the ground
    disconnected,    \* list of chunk indices still to be linked
    next_id,         \* identity of the next outline object that is created
    burrows,         \* the returned list of Burrow objects
    rpc,             \* position in connect_burrow_chunks
    iterations,      \* number of iterations of the merge loop that have run
    direct,          \* chunks linked to the ground line in step 2 or step 3
    pair,            \* c1, c2 of the latest iteration of the merge loop
    \* ---- add_burrows_to_tracks (the track manager)
    tracks,          \* self.result['burrows/tracks']: list of [active, hist]
    frame_id,        \* self.frame_id
    frames_done,     \* number of frames the loop has fetched (background_id + 1)
    burrow_log,      \* burrow_log[f]: the burrow list of the f-th frame
    match_log,       \* per burrow of the last frame: the track it matched, 0 if
                     \* it created a track
    \* ---- the burrow mask
    burrow_mask,     \* self.burrow_mask: None or an image of uint8 values
    image_uint8,     \* self._cache['image_uint8']: the mask of changed pixels
    ground,          \* self.ground: the level of the ground line, None at first
    frame,           \* the frame of the current iteration, None between frames
    chunk_queue,     \* chunks found in this frame that are still to be connected
    paints,          \* outlines painted into the mask in this frame
    update_aborted,  \* update_burrow_mask returned early in this frame
    mpc,             \* position in find_burrows
    \* ---- process
    ppc,             \* position in process
    status,          \* self.data['analysis-status']
    statistics,      \* the entries written by add_processing_statistics
    video,           \* state of self.video
    background_avg,  \* self.background_avg, every value times BgScale
    found,           \* the local variable burrows of find_burrows
    exc,             \* the exception that left the frame loop, "none" if none
    written,         \* what write_data has written, None before
    seen,            \* per pixel the least and the greatest value that the
                     \* frames fetched so far had there, None before
    debug_log,       \* what self.logger.exception has logged
    at_raise,        \* tracks, mask, background and frame count at the
                     \* moment the exception was raised
    \* ---- _connect_burrow_to_structure
    contour,         \* the points of the contour that is to be connected
    exit_points,     \* the contour points close to the structure
    cluster_data,    \* the clusters of the exit points still to be handled
    hulls,           \* the convex hulls added to the outline so far
    bpc              \* position in _connect_burrow_to_structure

rvars == <<burrow_chunks, ground_dist, burrow_dist, connected, disconnected,
           next_id, burrows, rpc, iterations, direct, pair>>

tvars == <<tracks, frame_id, frames_done, burrow_log, match_log>>

mvars == <<burrow_mask, image_uint8, ground, frame, chunk_queue, paints,
           update_aborted, mpc>>

pvars == <<ppc, status, statistics, video, background_avg, found, exc,
           written, at_raise, seen, debug_log>>

vars == <<burrow_chunks, ground_dist, burrow_dist, connected, disconnected,
          next_id, burrows, rpc, iterations, direct, pair,
          tracks, frame_id, frames_done, burrow_log, match_log,
          burrow_mask, image_uint8, ground, frame, chunk_queue, paints,
          update_aborted, mpc,
          ppc, status, statistics, video, background_avg, found, exc,
          written, at_raise, seen, debug_log,
          contour, exit_points, cluster_data, hulls, bpc>>

bvars == <<contour, exit_points, cluster_data, hulls, bpc>>

---------------------------------------------------------------------------
(* Bounds of the model *)

MaxChunks == 3
MaxDist == 2
MaxFrames == 3
MaxBurrows == 2
Width == 2
Height == 3
MaxPaints == 1
MaxPos == 5
MaxDepth == 2
MaxPoints == 4

---------------------------------------------------------------------------
(* Generic helpers *)

SeqToSet(s) == {s[i] : i \in 1..Len(s)}

MinOf(S) == CHOOSE m \in S : \A x \in S : m <= x

\* del seq[i]
DelAtNoop(seq, i) == seq

DelAt(seq, i) == [j \in 1..(Len(seq) - 1) |-> IF j < i THEN seq[j] ELSE seq[j + 1]]

\* seq.remove(v): removes the first occurrence of v
RemoveValue(seq, v) ==
    LET i == CHOOSE j \in 1..Len(seq) : seq[j] = v /\ \A l \in 1..(j - 1) : seq[l] # v
    IN  DelAt(seq, i)

---------------------------------------------------------------------------
(* State of the components that a specification does not exercise *)

\* setup_processing: no track yet, frame_id = -1
TracksIdle ==
    /\ tracks = <<>>
    /\ frame_id = -1
    /\ frames_done = 0
    /\ burrow_log = <<>>
    /\ match_log = <<>>

\* Python's None
None == <<>>

\* no call of _connect_burrow_to_structure is under way
BridgeIdle ==
    /\ contour = {}
    /\ exit_points = {}
    /\ cluster_data = {}
    /\ hulls = <<>>
    /\ bpc = "idle"

\* the state when process is called
ProcessIdle ==
    /\ ppc = "start"
    /\ status = "unset"
    /\ statistics = None
    /\ video = None
    /\ background_avg = None
    /\ found = <<>>
    /\ exc = "none"
    /\ written = None
    /\ at_raise = None
    /\ seen = None
    /\ debug_log = <<>>

\* setup_processing: no mask yet, the cache image is allocated
MaskIdle ==
    /\ burrow_mask = None
    /\ image_uint8 = None
    /\ ground = None
    /\ frame = None
    /\ chunk_queue = <<>>
    /\ paints = 0
    /\ update_aborted = FALSE
    /\ mpc = "idle"

---------------------------------------------------------------------------
(* connect_burrow_chunks *)

\* np.inf on the diagonal of the distance matrix
Inf == MaxDist + 1

\* the contours handed over by get_burrow_chunks: one object per chunk
InitialChunks(n) == [k \in 1..n |-> [id |-> k, parts |-> {k}, to_ground |-> FALSE]]

\* symmetric matrices with Inf on the diagonal, filled from the upper triangle
UpperPairs(n) == {p \in (1..n) \X (1..n) : p[1] < p[2]}

DistMatrix(n, f) ==
    [x \in 1..n |-> [y \in 1..n |->
        IF x = y THEN Inf ELSE IF x < y THEN f[<<x, y>>] ELSE f[<<y, x>>]]]

\* np.min(burrow_dist[k])
RowMin(bd, k) == MinOf({bd[k][j] : j \in 1..Len(bd)})

\* ground_dist[k] < np.min(burrow_dist[k])
ClosestToGroundNonStrict(gd, bd, k) == gd[k] <= RowMin(bd, k)

ClosestToGround(gd, bd, k) == gd[k] < RowMin(bd, k)

\* the test that decides whether a directly connected chunk gets a bridge
NeedsBridgeWhenNonzero(gd, k) == gd[k] > 0

NeedsBridge(gd, k) == gd[k] > 1

\* _connect_burrow_to_structure: returns a new outline object that contains
\* the contour and the hulls that reach the structure
ConnectToStructure(chunk, id, isGround) ==
    [id |-> id, parts |-> chunk.parts, to_ground |-> chunk.to_ground \/ isGround]

\* the loop of step 2 from chunk k on; st holds the chunk list, both index
\* lists and the next object identity
RECURSIVE ClassifyFrom(_, _, _, _)
ClassifyFrom(k, gd, bd, st) ==
    IF k > Len(st.chunks) THEN st
    ELSE IF ClosestToGround(gd, bd, k)
         THEN IF NeedsBridge(gd, k)
              THEN ClassifyFrom(k + 1, gd, bd,
                       [st EXCEPT !.chunks[k] = ConnectToStructure(@, st.nid, TRUE),
                                  !.nid = @ + 1,
                                  !.conn = Append(@, k)])
              ELSE ClassifyFrom(k + 1, gd, bd, [st EXCEPT !.conn = Append(@, k)])
         ELSE ClassifyFrom(k + 1, gd, bd, [st EXCEPT !.disc = Append(@, k)])

ArgMinLast(gd) ==
    CHOOSE k \in 1..Len(gd) :
        /\ \A j \in 1..Len(gd) : gd[k] <= gd[j]
        /\ \A j \in (k + 1)..Len(gd) : gd[j] > gd[k]

\* np.argmin(ground_dist): the first index that holds the minimum
ArgMin(gd) ==
    CHOOSE k \in 1..Len(gd) :
        /\ \A j \in 1..Len(gd) : gd[k] <= gd[j]
        /\ \A j \in 1..(k - 1) : gd[j] > gd[k]

\* step 3: when no chunk is closest to the ground, the chunk nearest to the
\* ground is bridged to it
ForceOne(gd, st) ==
    IF Len(st.conn) = 0
    THEN LET k == ArgMin(gd)
         IN  [st EXCEPT !.chunks[k] = ConnectToStructure(@, st.nid, TRUE),
                        !.nid = @ + 1,
                        !.conn = Append(@, k),
                        !.disc = RemoveValue(@, k)]
    ELSE st

\* dist = burrow_dist[disconnected, :][:, connected];
\* k1, k2 = np.unravel_index(dist.argmin(), dist.shape):
\* the first minimum in row-major order of the sub-matrix
NearestPairFirstCell(bd, disc, conn) == <<1, 1>>

NearestPair(bd, disc, conn) ==
    LET D(k1, k2) == bd[disc[k1]][conn[k2]]
        Cells == (1..Len(disc)) \X (1..Len(conn))
        Before(p, q) == p[1] < q[1] \/ (p[1] = q[1] /\ p[2] < q[2])
    IN  CHOOSE p \in Cells :
            /\ \A q \in Cells : D(p[1], p[2]) <= D(q[1], q[2])
            /\ \A q \in Cells : Before(q, p) => D(q[1], q[2]) > D(p[1], p[2])

\* the outline of poly1.union(poly2): a new object holding both structures
MergedOutline(enlarged, structure, id) ==
    [id |-> id, parts |-> enlarged.parts \cup structure.parts,
     to_ground |-> enlarged.to_ground \/ structure.to_ground]

\* burrow_chunks[c1] = outline, then every slot that holds the object of
\* slot c2 is set to outline
ReplaceOnlyTarget(chunks, c1, c2, outline) ==
    [k \in 1..Len(chunks) |-> IF k = c1 \/ k = c2 THEN outline ELSE chunks[k]]

ReplaceOnlyMerged(chunks, c1, c2, outline) == [chunks EXCEPT ![c1] = outline]

ReplaceAliases(chunks, c1, c2, outline) ==
    LET step1 == [chunks EXCEPT ![c1] = outline]
        id_c2 == step1[c2].id
    IN  [k \in 1..Len(step1) |-> IF step1[k].id = id_c2 THEN outline ELSE step1[k]]

\* while disconnected:
LoopRunsUntilOneLeft(disc) == Len(disc) > 1

LoopRuns(disc) == Len(disc) > 0

\* unique_based_on_id: the objects of the list without repetition, in the
\* order of their first occurrence
UniqueBasedOnId(chunks) ==
    LET first == {k \in 1..Len(chunks) :
                     \A j \in 1..(k - 1) : chunks[j].id # chunks[k].id}
        RECURSIVE Collect(_)
        Collect(k) == IF k > Len(chunks) THEN <<>>
                      ELSE IF k \in first THEN <<chunks[k]>> \o Collect(k + 1)
                           ELSE Collect(k + 1)
    IN  Collect(1)

\* a call of connect_burrow_chunks with a list of n chunks
ResolverCall ==
    \E n \in 0..MaxChunks :
      \E gd \in [1..n -> 0..MaxDist] :
        \E f \in [UpperPairs(n) -> 1..MaxDist] :
            /\ burrow_chunks = InitialChunks(n)
            /\ ground_dist = gd
            /\ burrow_dist = DistMatrix(n, f)
            /\ connected = <<>>
            /\ disconnected = <<>>
            /\ next_id = n + 1
            /\ burrows = <<>>
            /\ rpc = "start"
            /\ iterations = 0
            /\ direct = {}
            /\ pair = None
            /\ TracksIdle
            /\ MaskIdle
            /\ ProcessIdle
            /\ BridgeIdle

\* if len(burrow_chunks) == 0: return []
ReturnEmpty ==
    /\ rpc = "start"
    /\ Len(burrow_chunks) = 0
    /\ rpc' = "done"
    /\ burrows' = <<>>
    /\ UNCHANGED <<burrow_chunks, ground_dist, burrow_dist, connected,
                   disconnected, next_id, iterations, direct, pair>>

\* steps 1 and 2: the distances are those of the call, every chunk is put
\* into one of the two lists
Classify ==
    /\ rpc = "start"
    /\ Len(burrow_chunks) > 0
    /\ LET st0 == [chunks |-> burrow_chunks, conn |-> <<>>, disc |-> <<>>,
                   nid |-> next_id]
           st  == ClassifyFrom(1, ground_dist, burrow_dist, st0)
       IN  /\ burrow_chunks' = st.chunks
           /\ connected' = st.conn
           /\ disconnected' = st.disc
           /\ next_id' = st.nid
    /\ rpc' = "force"
    /\ UNCHANGED <<ground_dist, burrow_dist, burrows, iterations, direct, pair>>

\* assert (set(connected) | set(disconnected)) == set(range(len(burrow_chunks)))
AssertionHolds(conn, disc, n) == SeqToSet(conn) \cup SeqToSet(disc) = 1..n

\* step 3 and the assertion before the merge loop
Force ==
    /\ rpc = "force"
    /\ LET st0 == [chunks |-> burrow_chunks, conn |-> connected,
                   disc |-> disconnected, nid |-> next_id]
           st  == ForceOne(ground_dist, st0)
       IN  /\ burrow_chunks' = st.chunks
           /\ connected' = st.conn
           /\ disconnected' = st.disc
           /\ next_id' = st.nid
           /\ direct' = SeqToSet(st.conn)
           /\ rpc' = IF AssertionHolds(st.conn, st.disc, Len(st.chunks))
                     THEN "loop" ELSE "assertion_error"
    /\ UNCHANGED <<ground_dist, burrow_dist, burrows, iterations, pair>>

\* one iteration of the merge loop
MergeStep ==
    /\ rpc = "loop"
    /\ LoopRuns(disconnected)
    /\ LET p  == NearestPair(burrow_dist, disconnected, connected)
           k1 == p[1]
           c1 == disconnected[p[1]]
           c2 == connected[p[2]]
           structure == burrow_chunks[c2]
           enlarged  == ConnectToStructure(burrow_chunks[c1], next_id, FALSE)
           outline   == MergedOutline(enlarged, structure, next_id + 1)
       IN  /\ burrow_chunks' = ReplaceAliases(burrow_chunks, c1, c2, outline)
           /\ disconnected' = DelAt(disconnected, k1)
           /\ connected' = Append(connected, c1)
           /\ next_id' = next_id + 2
           /\ pair' = <<c1, c2>>
    /\ iterations' = iterations + 1
    /\ UNCHANGED <<ground_dist, burrow_dist, burrows, rpc, direct>>

\* a call of _connect_burrow_to_structure is due at this position
BridgeDue ==
    \/ /\ rpc = "start"
       /\ \E k \in 1..Len(burrow_chunks) :
              ClosestToGround(ground_dist, burrow_dist, k) /\ NeedsBridge(ground_dist, k)
    \/ rpc = "force" /\ Len(connected) = 0
    \/ rpc = "loop" /\ LoopRuns(disconnected)

\* the call finds a single exit point: fclusterdata raises a ValueError,
\* which leaves connect_burrow_chunks
ConnectRaises ==
    /\ BridgeDue
    /\ rpc' = "error"
    /\ UNCHANGED <<burrow_chunks, ground_dist, burrow_dist, connected,
                   disconnected, next_id, burrows, iterations, direct, pair>>

\* the loop has ended: the unique outlines are returned as burrows
EmitBurrows ==
    /\ rpc = "loop"
    /\ ~LoopRuns(disconnected)
    /\ burrows' = UniqueBasedOnId(burrow_chunks)
    /\ rpc' = "done"
    /\ UNCHANGED <<burrow_chunks, ground_dist, burrow_dist, connected,
                   disconnected, next_id, iterations, direct, pair>>

ResolverStep ==
    ReturnEmpty \/ Classify \/ Force \/ MergeStep \/ ConnectRaises \/ EmitBurrows

ResolverNext == ResolverStep /\ UNCHANGED <<tvars, mvars, pvars, bvars>>

SpecResolver == ResolverCall /\ [][ResolverNext]_vars

---------------------------------------------------------------------------
(* add_burrows_to_tracks *)

\* the outlines of the burrows: sets of cells of the plane; two outlines
\* intersect when they share a cell
Shapes == {{1}, {2}, {1, 2}}

\* self.params['output/video/period']
VideoPeriod == 1

\* Burrow.intersects
Intersects(a, b) == a \cap b # {}

\* burrow != track.last
Differs(a, b) == a # b

\* BurrowTrack.last: the outline of the most recent entry
TrackLast(t) == t.hist[Len(t.hist)][2]

\* BurrowTrack.append
TrackAppend(t, fid, b) == [t EXCEPT !.hist = Append(@, <<fid, b>>)]

\* BurrowTrackList.create_track: a new active track with one entry
CreateTrack(trs, fid, b) ==
    Append(trs, [active |-> TRUE, hist |-> << <<fid, b>> >>])

\* active_tracks = [track for track in burrow_tracks if track.active]:
\* the positions in burrow_tracks of the tracks of the snapshot, in order
AllTracks(trs) == [i \in 1..Len(trs) |-> i]

ActiveTracks(trs) ==
    LET RECURSIVE Collect(_)
        Collect(i) == IF i > Len(trs) THEN <<>>
                      ELSE IF trs[i].active THEN <<i>> \o Collect(i + 1)
                           ELSE Collect(i + 1)
    IN  Collect(1)

\* burrow.intersects(track.last)
MatchesFirstOutline(b, t) == Intersects(b, t.hist[1][2])

Matches(b, t) == Intersects(b, TrackLast(t))

LastMatch(trs, act, b) ==
    IF \E p \in 1..Len(act) : Matches(b, trs[act[p]])
    THEN CHOOSE p \in 1..Len(act) :
             /\ Matches(b, trs[act[p]])
             /\ \A q \in (p + 1)..Len(act) : ~Matches(b, trs[act[q]])
    ELSE 0

NoMatch(trs, act, b) == 0

\* the inner for loop with its break: the position in the snapshot of the
\* first track that the burrow matches, 0 when the loop runs to its else
FirstMatch(trs, act, b) ==
    IF \E p \in 1..Len(act) : Matches(b, trs[act[p]])
    THEN CHOOSE p \in 1..Len(act) :
             /\ Matches(b, trs[act[p]])
             /\ \A q \in 1..(p - 1) : ~Matches(b, trs[act[q]])
    ELSE 0

\* the loop over the burrows from burrow j on; st holds the track list, the
\* set tracks_extended and the log of the branch taken for each burrow
RECURSIVE MatchBurrows(_, _, _, _, _)
MatchBurrows(j, bs, fid, act, st) ==
    IF j > Len(bs) THEN st
    ELSE LET b == bs[j]
             p == FirstMatch(st.trs, act, b)
         IN  IF p > 0
             THEN LET i == act[p]
                      t == st.trs[i]
                  IN  MatchBurrows(j + 1, bs, fid, act,
                          [trs |-> IF Differs(b, TrackLast(t))
                                   THEN [st.trs EXCEPT ![i] = TrackAppend(t, fid, b)]
                                   ELSE st.trs,
                           extended |-> st.extended \cup {p},
                           log |-> Append(st.log, i)])
             ELSE MatchBurrows(j + 1, bs, fid, act,
                      [trs |-> CreateTrack(st.trs, fid, b),
                       extended |-> st.extended,
                       log |-> Append(st.log, 0)])

\* deactivate tracks that have not been found
RemoveUnextended(trs, act, extended) ==
    LET gone == {act[p] : p \in (1..Len(act)) \ extended}
        RECURSIVE Keep(_)
        Keep(i) == IF i > Len(trs) THEN <<>>
                   ELSE IF i \in gone THEN Keep(i + 1)
                        ELSE <<trs[i]>> \o Keep(i + 1)
    IN  Keep(1)

DeactivateNone(trs, act, extended) == trs

DeactivateOutsideExtended(trs, act, extended) ==
    LET kept == {act[p] : p \in extended}
    IN  [i \in 1..Len(trs) |->
            IF i \in kept THEN trs[i] ELSE [trs[i] EXCEPT !.active = FALSE]]

DeactivateUnextended(trs, act, extended) ==
    LET gone == {act[p] : p \in (1..Len(act)) \ extended}
    IN  [i \in 1..Len(trs) |->
            IF i \in gone THEN [trs[i] EXCEPT !.active = FALSE] ELSE trs[i]]

\* add_burrows_to_tracks(burrows) at frame fid
AddBurrowsToTracks(trs, fid, bs) ==
    LET act == ActiveTracks(trs)
        st  == MatchBurrows(1, bs, fid, act,
                            [trs |-> trs, extended |-> {}, log |-> <<>>])
    IN  [trs |-> DeactivateUnextended(st.trs, act, st.extended),
         log |-> st.log]

\* the burrow lists that a frame can yield
BurrowLists == UNION {[1..n -> Shapes] : n \in 0..MaxBurrows}

\* one frame of the loop: the frame index advances and the burrows that the
\* frame yields are added to the tracks
TrackFrame ==
    /\ frames_done < MaxFrames
    /\ \E bs \in BurrowLists :
         LET fid == frames_done * VideoPeriod
             r   == AddBurrowsToTracks(tracks, fid, bs)
         IN  /\ frame_id' = fid
             /\ tracks' = r.trs
             /\ match_log' = r.log
             /\ burrow_log' = Append(burrow_log, bs)
    /\ frames_done' = frames_done + 1

ResolverIdle ==
    /\ burrow_chunks = <<>>
    /\ ground_dist = <<>>
    /\ burrow_dist = <<>>
    /\ connected = <<>>
    /\ disconnected = <<>>
    /\ next_id = 1
    /\ burrows = <<>>
    /\ rpc = "idle"
    /\ iterations = 0
    /\ direct = {}
    /\ pair = None

TracksInit ==
    TracksIdle /\ ResolverIdle /\ MaskIdle /\ ProcessIdle /\ BridgeIdle

TracksNext == TrackFrame /\ UNCHANGED <<bvars, rvars, mvars, pvars>>

SpecTracks == TracksInit /\ [][TracksNext]_vars

---------------------------------------------------------------------------
(* Images.  A pixel is <<x, y>>, y grows downwards; an image maps every    *)
(* pixel to a uint8 value.  The ground line is horizontal: ground = g      *)
(* means that the rows y >= g lie in the ground, g = Height that the       *)
(* ground line lies at the lower edge of the frame.                        *)

Pixels == (0..(Width - 1)) \X (0..(Height - 1))

\* self.data['pass1/colors/sky'], self.data['pass1/colors/sand']
ColorSky == 0
ColorSand == 4
\* self.data['pass1/colors/sand_std']
ChangeThreshold == 1
\* self.params['burrows/area_min']
AreaMin == 2
\* self.params['burrows/ground_point_distance']
GroundPointDistance == 3

MaxOf(S) == CHOOSE m \in S : \A x \in S : m >= x

\* an array: the function with the value of every pixel computed once (the
\* comparison makes the model checker tabulate the function)
Array(f) == IF f = None THEN f ELSE f

Abs(n) == IF n < 0 THEN -n ELSE n

\* position of a pixel in the row-major order of the array
Raster(p) == p[2] * Width + p[1]

RECURSIVE SumOver(_, _)
SumOver(S, f) ==
    IF S = {} THEN 0
    ELSE LET p == CHOOSE q \in S : \A r \in S : Raster(q) <= Raster(r)
         IN  f[p] + SumOver(S \ {p}, f)

\* img.sum()
ImageSum(img) == SumOver(Pixels, img)

\* the pixels that are not zero
Support(img) == {p \in Pixels : img[p] # 0}

\* cv2.getStructuringElement(cv2.MORPH_ELLIPSE, (3, 3)): the pixel and its
\* four neighbours; pixels beyond the border do not count
Cross(p) ==
    {q \in Pixels : Abs(q[1] - p[1]) + Abs(q[2] - p[2]) <= 1}

\* cv2.erode and cv2.dilate with that kernel
Erode(img) == Array([p \in Pixels |-> MinOf({img[q] : q \in Cross(p)})])

Dilate(img) == Array([p \in Pixels |-> MaxOf({img[q] : q \in Cross(p)})])

\* cv2.morphologyEx(img, cv2.MORPH_OPEN, kernel1) and cv2.MORPH_CLOSE
MorphOpen(img) == Dilate(Erode(img))

MorphCloseErodesFirst(img) == Dilate(Erode(img))

MorphClose(img) == Erode(Dilate(img))

\* cv2.fillPoly(img, [outline], color)
FillPoly(img, region, color) ==
    Array([p \in Pixels |-> IF p \in region THEN color ELSE img[p]])

\* ndimage.measurements.label: the 4-connected components of the pixels
\* that are not zero, numbered in row-major order of their first pixel
RECURSIVE Flood(_, _)
Flood(C, S) ==
    LET N == C \cup {q \in S : \E p \in C : q \in Cross(p)}
    IN  IF N = C THEN C ELSE Flood(N, S)

RECURSIVE Components(_)
Components(S) ==
    IF S = {} THEN <<>>
    ELSE LET p == CHOOSE q \in S : \A r \in S : Raster(q) <= Raster(r)
             C == Flood({p}, S)
         IN  <<C>> \o Components(S \ C)

\* get_ground_mask: 255 in the ground, 0 above it
GroundMask(g) == Array([p \in Pixels |-> IF p[2] >= g THEN 255 ELSE 0])

\* ground_line.distance(Point(props.centroid)) compared with a limit d,
\* both sides multiplied by the area and by den:  dist > num / den
YSum(C) == SumOver(C, Array([p \in Pixels |-> p[2]]))

CentroidFartherThan(C, g, num, den) ==
    den * Abs(YSum(C) - g * Cardinality(C)) > num * Cardinality(C)

CentroidNearerThan(C, g, num, den) ==
    den * Abs(YSum(C) - g * Cardinality(C)) < num * Cardinality(C)

---------------------------------------------------------------------------
(* get_initial_burrow_mask *)

\* the passes of the while loop: pass i thresholds the frame at
\* 0.33 * sand + 0.67 * sky - i; max(areas) raises a ValueError when the
\* mask of a pass has no component, and the mask of that pass stays
RECURSIVE InitialThresholdLoop(_, _, _)
InitialThresholdLoop(fr, eroded, i) ==
    LET bm == Array([p \in Pixels |->
                  IF 100 * fr[p] < 33 * ColorSand + 67 * ColorSky - 100 * i
                     /\ eroded[p] # 0
                  THEN 1 ELSE 0])
        comps == Components(Support(bm))
    IN  IF Len(comps) = 0
        THEN [error |-> TRUE, mask |-> bm]
        ELSE LET largest == MaxOf({l * Cardinality(comps[l]) : l \in 1..Len(comps)})
             IN  IF largest > 10 * AreaMin
                 THEN InitialThresholdLoop(fr, eroded, i + 1)
                 ELSE [error |-> FALSE, mask |-> bm]

\* remove all structures which are too far away from the ground line
RemoveFarStructures(bm, g) ==
    LET comps == Components(Support(bm))
        far == UNION {comps[l] : l \in {k \in 1..Len(comps) :
                   CentroidFartherThan(comps[k], g, GroundPointDistance, 1)}}
    IN  FillPoly(bm, far, 0)

InitialBurrowMask(fr, g) ==
    LET r == InitialThresholdLoop(fr, Erode(GroundMask(g)), 0)
    IN  IF r.error THEN r ELSE [r EXCEPT !.mask = RemoveFarStructures(@, g)]

---------------------------------------------------------------------------
(* update_burrow_mask *)

\* mask[:] = (diff < -change_threshold) with diff = -background_avg + frame;
\* bg holds the values of the background times scale
ChangedPixels(fr, bg, scale) ==
    Array([p \in Pixels |->
              IF scale * fr[p] - bg[p] < -(scale * ChangeThreshold) THEN 1 ELSE 0])

\* mask.sum() > 0.1 * ground_mask.sum()
TooMuchChange(flagged, ground_mask) ==
    10 * ImageSum(flagged) > ImageSum(ground_mask)

\* self.burrow_mask[mask == 1] = 1
AddRegions(bm, mask) ==
    Array([p \in Pixels |-> IF mask[p] = 1 THEN 1 ELSE bm[p]])

\* self.burrow_mask[ground_mask == 0] = 0
ClearAboveGroundNever(bm, ground_mask) == bm

ClearAboveGround(bm, ground_mask) ==
    Array([p \in Pixels |-> IF ground_mask[p] = 0 THEN 0 ELSE bm[p]])

\* an update that empties the burrow mask when the safety check aborts it
UpdateBurrowMaskAbortClears(bm, fr, bg, scale, g) ==
    LET ground_mask == GroundMask(g)
        flagged == ChangedPixels(fr, bg, scale)
    IN  IF TooMuchChange(flagged, ground_mask)
        THEN [mask |-> Array([p \in Pixels |-> 0]), cache |-> flagged,
              aborted |-> TRUE]
        ELSE [mask |-> ClearAboveGround(
                           MorphClose(AddRegions(bm, MorphOpen(flagged))),
                           ground_mask),
              cache |-> flagged,
              aborted |-> FALSE]

\* update_burrow_mask: the mask, the cache image and whether it aborted
UpdateBurrowMask(bm, fr, bg, scale, g) ==
    LET ground_mask == GroundMask(g)
        flagged == ChangedPixels(fr, bg, scale)
    IN  IF TooMuchChange(flagged, ground_mask)
        THEN [mask |-> bm, cache |-> flagged, aborted |-> TRUE]
        ELSE [mask |-> ClearAboveGround(
                           MorphClose(AddRegions(bm, MorphOpen(flagged))),
                           ground_mask),
              cache |-> flagged,
              aborted |-> FALSE]

---------------------------------------------------------------------------
(* get_burrow_chunks *)

\* color_avg > color_thresh with color_thresh = 0.8 * sand + 0.2 * sky
NeverTooBright(C, fr) == FALSE

AlwaysTooBright(C, fr) == TRUE

TooBright(C, fr) ==
    10 * SumOver(C, fr) > (8 * ColorSand + 2 * ColorSky) * Cardinality(C)

\* len(contour) > 2: the simplified outer contour of a component has at
\* most two points when the component lies in one row or in one column
HasContour(C) ==
    /\ Cardinality({p[1] : p \in C}) > 1
    /\ Cardinality({p[2] : p \in C}) > 1

\* the loop over the labels from label l on; st holds the mask and the
\* list of chunks
RECURSIVE ExtractFrom(_, _, _, _, _)
ExtractFrom(l, comps, fr, g, st) ==
    IF l > Len(comps) THEN st
    ELSE LET C == comps[l]
         IN  IF Cardinality(C) < AreaMin
             THEN ExtractFrom(l + 1, comps, fr, g, st)
             ELSE IF CentroidNearerThan(C, g, GroundPointDistance, 2)
             THEN ExtractFrom(l + 1, comps, fr, g, st)
             ELSE IF TooBright(C, fr)
             THEN ExtractFrom(l + 1, comps, fr, g,
                              [st EXCEPT !.mask = FillPoly(@, C, 0)])
             ELSE IF HasContour(C)
             THEN ExtractFrom(l + 1, comps, fr, g,
                              [st EXCEPT !.chunks = Append(@, C)])
             ELSE ExtractFrom(l + 1, comps, fr, g, st)

GetBurrowChunks(bm, fr, g) ==
    ExtractFrom(1, Components(Support(bm)), fr, g, [mask |-> bm, chunks |-> <<>>])

---------------------------------------------------------------------------
(* the mask through find_burrows *)

\* cv2.fillPoly(self.burrow_mask, [outline], 1) in
\* _connect_burrow_to_structure
BridgePaintGroundColor(bm, region) == FillPoly(bm, region, 255)

BridgePaint(bm, region) == FillPoly(bm, region, 1)

\* the regions that frames and outlines are made of: the rectangles
Rects ==
    {{p \in Pixels : x0 <= p[1] /\ p[1] <= x1 /\ y0 <= p[2] /\ p[2] <= y1} :
        <<x0, x1, y0, y1>> \in (0..(Width - 1)) \X (0..(Width - 1))
                               \X (0..(Height - 1)) \X (0..(Height - 1))}

\* the frames: sand with one darker rectangle
DarkColors == {0, 1}

FrameImage(R, v) == Array([p \in Pixels |-> IF p \in R THEN v ELSE ColorSand])

Frames == {FrameImage(R, v) : R \in Rects, v \in DarkColors}

\* the backgrounds a frame is compared with: the frame itself, or an even
\* image
BackgroundLevels == {2, 4}

Backgrounds(fr) == {fr} \cup {Array([p \in Pixels |-> c]) : c \in BackgroundLevels}

\* the loop fetches a frame and the ground profile of the frame
MaskNewFrame ==
    /\ mpc = "idle"
    /\ \E g \in 0..Height : ground' = g
    /\ \E fr \in Frames : frame' = fr
    /\ mpc' = IF burrow_mask = None THEN "initial" ELSE "update"
    /\ UNCHANGED <<burrow_mask, image_uint8, chunk_queue, paints, update_aborted>>

\* if self.burrow_mask is None: self.get_initial_burrow_mask(frame)
MaskInitial ==
    /\ mpc = "initial"
    /\ LET r == InitialBurrowMask(frame, ground)
       IN  IF r.error
           THEN /\ mpc' = "error"
                /\ burrow_mask' = r.mask
           ELSE /\ mpc' = "update"
                /\ burrow_mask' = r.mask
    /\ UNCHANGED <<image_uint8, ground, frame, chunk_queue, paints, update_aborted>>

\* self.update_burrow_mask(frame) when the background is bg / scale
MaskUpdateWith(bg, scale) ==
    /\ mpc = "update"
    /\ LET r == UpdateBurrowMask(burrow_mask, frame, bg, scale, ground)
       IN  /\ burrow_mask' = r.mask
           /\ image_uint8' = r.cache
           /\ update_aborted' = r.aborted
    /\ mpc' = "extract"
    /\ UNCHANGED <<ground, frame, chunk_queue, paints>>

MaskUpdate == \E bg \in Backgrounds(frame) : MaskUpdateWith(bg, 1)

\* burrow_chunks = self.get_burrow_chunks(frame)
MaskExtract ==
    /\ mpc = "extract"
    /\ LET r == GetBurrowChunks(burrow_mask, frame, ground)
       IN  /\ burrow_mask' = r.mask
           /\ chunk_queue' = r.chunks
    /\ mpc' = "connect"
    /\ UNCHANGED <<image_uint8, ground, frame, paints, update_aborted>>

\* connect_burrow_chunks links a chunk with _connect_burrow_to_structure:
\* the outline that is painted covers the chunk and a bridge
MaskPaint ==
    /\ mpc = "connect"
    /\ chunk_queue # <<>>
    /\ paints < MaxPaints
    /\ \E R \in Rects : burrow_mask' = BridgePaint(burrow_mask, Head(chunk_queue) \cup R)
    /\ chunk_queue' = Tail(chunk_queue)
    /\ paints' = paints + 1
    /\ UNCHANGED <<image_uint8, ground, frame, update_aborted, mpc>>

\* connect_burrow_chunks leaves a chunk as it is (it lies at the ground line)
MaskSkipChunk ==
    /\ mpc = "connect"
    /\ chunk_queue # <<>>
    /\ chunk_queue' = Tail(chunk_queue)
    /\ UNCHANGED <<burrow_mask, image_uint8, ground, frame, paints,
                   update_aborted, mpc>>

\* find_burrows returns, the iteration ends.  The ground profile and the
\* cache image are written anew before the next iteration reads them, so
\* their old values are dropped here.
MaskFrameDone ==
    /\ mpc = "connect"
    /\ chunk_queue = <<>>
    /\ mpc' = "idle"
    /\ frame' = None
    /\ ground' = None
    /\ image_uint8' = None
    /\ paints' = 0
    /\ update_aborted' = FALSE
    /\ UNCHANGED <<burrow_mask, chunk_queue>>

MaskInit ==
    MaskIdle /\ TracksIdle /\ ResolverIdle /\ ProcessIdle /\ BridgeIdle

MaskNext ==
    \/ MaskNewFrame /\ UNCHANGED <<bvars, rvars, tvars, pvars>>
    \/ MaskInitial /\ UNCHANGED <<bvars, rvars, tvars, pvars>>
    \/ MaskUpdate /\ UNCHANGED <<bvars, rvars, tvars, pvars>>
    \/ MaskExtract /\ UNCHANGED <<bvars, rvars, tvars, pvars>>
    \/ MaskPaint /\ UNCHANGED <<bvars, rvars, tvars, pvars>>
    \/ MaskSkipChunk /\ UNCHANGED <<bvars, rvars, tvars, pvars>>
    \/ MaskFrameDone /\ UNCHANGED <<bvars, rvars, tvars, pvars>>

SpecMask == MaskInit /\ [][MaskNext]_vars

---------------------------------------------------------------------------
(* process: setup_processing, _iterate_over_video and the cleanup          *)
(*                                                                         *)
(* The video ends after at most MaxFrames frames.  connect_burrow_chunks   *)
(* is one step here (SpecResolver has its steps): it may paint a bridge    *)
(* and it returns at least one burrow and at most one burrow per chunk.    *)

\* 1 / self.params['background/adaptation_rate']
RateDen == 2

RECURSIVE Pow(_, _)
Pow(b, e) == IF e = 0 THEN 1 ELSE b * Pow(b, e - 1)

\* background_avg is kept times BgScale, which makes every average of up to
\* MaxFrames frames an integer
BgScale == Pow(RateDen, MaxFrames)

\* the adaptation with a rate of 2 instead of 1/RateDen
AdaptBackgroundOvershoot(bg, fr) ==
    IF bg = None
    THEN Array([p \in Pixels |-> BgScale * fr[p]])
    ELSE Array([p \in Pixels |-> bg[p] + 2 * (BgScale * fr[p] - bg[p])])

\* the first background is brighter than the frame
AdaptBackgroundBrightened(bg, fr) ==
    IF bg = None
    THEN Array([p \in Pixels |-> BgScale * (fr[p] + ChangeThreshold + 1)])
    ELSE Array([p \in Pixels |-> bg[p] + (BgScale * fr[p] - bg[p]) \div RateDen])

\* adapt the background to current frame
AdaptBackground(bg, fr) ==
    IF bg = None
    THEN Array([p \in Pixels |-> BgScale * fr[p]])
    ELSE Array([p \in Pixels |-> bg[p] + (BgScale * fr[p] - bg[p]) \div RateDen])

\* except (KeyboardInterrupt, SystemExit)
CaughtKeyboardOnly(e) == e = "KeyboardInterrupt"

Caught(e) == e \in {"KeyboardInterrupt", "SystemExit"}

Interrupts == {"KeyboardInterrupt", "SystemExit"}

\* the frames of the video: sand with a dark band over the whole width; the
\* levels of the ground profile
Bands == {{p \in Pixels : y0 <= p[2] /\ p[2] <= y1} :
             <<y0, y1>> \in (0..(Height - 1)) \X (0..(Height - 1))}

VideoFrames == {FrameImage(R, ColorSky) : R \in Bands}

VideoGrounds == 0..Height

\* the least and the greatest value of every pixel over the frames seen
SeenWith(s, fr) ==
    IF s = None
    THEN [lo |-> fr, hi |-> fr]
    ELSE [lo |-> Array([p \in Pixels |-> IF fr[p] < s.lo[p] THEN fr[p] ELSE s.lo[p]]),
          hi |-> Array([p \in Pixels |-> IF fr[p] > s.hi[p] THEN fr[p] ELSE s.hi[p]])]

\* self.setup_processing(); self.debug_setup(); the status is set
ProcSetup ==
    /\ ppc = "start"
    /\ video' = "open"
    /\ frame_id' = -1
    /\ background_avg' = None
    /\ tracks' = <<>>
    /\ burrow_mask' = None
    /\ status' = "Initialized video analysis"
    /\ ppc' = "loop"
    /\ UNCHANGED <<bvars, rvars, frames_done, burrow_log, match_log, image_uint8,
                   ground, frame, chunk_queue, paints, update_aborted, mpc,
                   statistics, found, exc, written, at_raise, seen, debug_log>>

\* the head of the for loop yields a frame: frame_id, the background and
\* the ground profile are updated and find_burrows is entered
ProcFetch ==
    /\ ppc = "loop"
    /\ mpc = "idle"
    /\ frames_done < MaxFrames
    /\ \E fr \in VideoFrames :
         /\ frame' = fr
         /\ background_avg' = AdaptBackground(background_avg, fr)
         /\ seen' = SeenWith(seen, fr)
    /\ \E g \in VideoGrounds : ground' = g
    /\ frame_id' = frames_done * VideoPeriod
    /\ frames_done' = frames_done + 1
    /\ mpc' = IF burrow_mask = None THEN "initial" ELSE "update"
    /\ UNCHANGED <<bvars, rvars, tracks, burrow_log, match_log, burrow_mask,
                   image_uint8, chunk_queue, paints, update_aborted,
                   ppc, status, statistics, video, found, exc, written,
                   at_raise, debug_log>>

ProcInitial == ppc = "loop" /\ MaskInitial /\ UNCHANGED <<bvars, rvars, tvars, pvars>>

ProcUpdate ==
    /\ ppc = "loop"
    /\ MaskUpdateWith(background_avg, BgScale)
    /\ UNCHANGED <<bvars, rvars, tvars, pvars>>

ProcExtract == ppc = "loop" /\ MaskExtract /\ UNCHANGED <<bvars, rvars, tvars, pvars>>

\* burrows = self.connect_burrow_chunks(burrow_chunks)
ProcConnect ==
    /\ ppc = "loop"
    /\ mpc = "connect"
    /\ IF chunk_queue = <<>>
       THEN /\ found' = <<>>
            /\ UNCHANGED <<burrow_mask, paints>>
       ELSE /\ \E bs \in BurrowLists :
                 /\ Len(bs) >= 1
                 /\ Len(bs) <= Len(chunk_queue)
                 /\ found' = bs
            /\ \/ UNCHANGED <<burrow_mask, paints>>
               \/ /\ \E R \in Rects :
                       burrow_mask' = BridgePaint(burrow_mask, Head(chunk_queue) \cup R)
                  /\ paints' = paints + 1
    /\ chunk_queue' = <<>>
    /\ mpc' = "tracks"
    /\ UNCHANGED <<bvars, rvars, tvars, image_uint8, ground, frame, update_aborted,
                   ppc, status, statistics, video, background_avg, exc,
                   written, at_raise, seen, debug_log>>

\* self.add_burrows_to_tracks(burrows)
ProcTracks ==
    /\ ppc = "loop"
    /\ mpc = "tracks"
    /\ LET r == AddBurrowsToTracks(tracks, frame_id, found)
       IN  /\ tracks' = r.trs
           /\ match_log' = r.log
    /\ burrow_log' = Append(burrow_log, found)
    /\ mpc' = "debug"
    /\ UNCHANGED <<bvars, rvars, frame_id, frames_done, burrow_mask, image_uint8,
                   ground, frame, chunk_queue, paints, update_aborted, pvars>>

\* self.debug_process_frame(frame); the iteration ends
ProcDebugFrame ==
    /\ ppc = "loop"
    /\ mpc = "debug"
    /\ mpc' = "idle"
    /\ frame' = None
    /\ ground' = None
    /\ image_uint8' = None
    /\ paints' = 0
    /\ update_aborted' = FALSE
    /\ found' = <<>>
    /\ UNCHANGED <<bvars, rvars, tvars, burrow_mask, chunk_queue,
                   ppc, status, statistics, video, background_avg, exc,
                   written, at_raise, seen, debug_log>>

\* exception e leaves _iterate_over_video
Raise(e) ==
    /\ exc' = e
    /\ at_raise' = [tracks |-> tracks, burrow_mask |-> burrow_mask,
                    background_avg |-> background_avg,
                    frames_done |-> frames_done]
    /\ ppc' = IF Caught(e) THEN "except" ELSE "finally"
    /\ UNCHANGED <<bvars, rvars, tvars, mvars, status, statistics, video,
                   background_avg, found, written, seen, debug_log>>

\* a KeyboardInterrupt or SystemExit is raised somewhere in the frame loop
ProcInterrupt ==
    /\ ppc = "loop"
    /\ mpc # "error"
    /\ \E e \in Interrupts : Raise(e)

\* largest_area = max(areas) raises a ValueError in get_initial_burrow_mask
ProcValueError ==
    /\ ppc = "loop"
    /\ mpc = "error"
    /\ Raise("ValueError")

\* the debug video fails with an IOError in the frame loop: in set_frame
\* after the background was adapted, or in debug_process_frame; neither
\* call stands in a try statement
ProcDebugIOError ==
    /\ ppc = "loop"
    /\ mpc \in {"initial", "update", "debug"}
    /\ Raise("IOError")

\* the except clause
ProcExcept ==
    /\ ppc = "except"
    /\ video' = "aborted"
    /\ status' = "Partly finished third pass"
    /\ ppc' = "finally"
    /\ UNCHANGED <<bvars, rvars, tvars, mvars, statistics, background_avg, found,
                   exc, written, at_raise, seen, debug_log>>

\* the video has no further frame: the else clause
ProcElse ==
    /\ ppc = "loop"
    /\ mpc = "idle"
    /\ status' = "Finished third pass"
    /\ ppc' = "finally"
    /\ UNCHANGED <<bvars, rvars, tvars, mvars, statistics, video, background_avg,
                   found, exc, written, at_raise, seen, debug_log>>

\* the finally clause: self.add_processing_statistics(...)
ProcStatistics ==
    /\ ppc = "finally"
    /\ statistics' = [frames_analyzed |-> frame_id + 1]
    /\ ppc' = "close"
    /\ UNCHANGED <<bvars, rvars, tvars, mvars, status, video, background_avg,
                   found, exc, written, at_raise, seen, debug_log>>

\* self.video.close(); self.debug_finalize()
ProcClose ==
    /\ ppc = "close"
    /\ video' = "closed"
    /\ ppc' = "write_data"
    /\ UNCHANGED <<bvars, rvars, tvars, mvars, status, statistics, background_avg,
                   found, exc, written, at_raise, seen, debug_log>>

\* self.video.close(); in self.debug_finalize() the debug video fails with
\* an IOError while it is closed: the error is caught and logged
ProcCloseIOError ==
    /\ ppc = "close"
    /\ video' = "closed"
    /\ debug_log' = Append(debug_log, "Error while writing out the debug video")
    /\ ppc' = "write_data"
    /\ UNCHANGED <<bvars, rvars, tvars, mvars, status, statistics, background_avg,
                   found, exc, written, at_raise, seen>>

\* self.write_data(); an exception that was not caught propagates
ProcWriteData ==
    /\ ppc = "write_data"
    /\ written' = [status |-> status, tracks |-> tracks,
                   statistics |-> statistics]
    /\ ppc' = IF exc # "none" /\ ~Caught(exc) THEN "raised" ELSE "done"
    /\ UNCHANGED <<bvars, rvars, tvars, mvars, status, statistics, video,
                   background_avg, found, exc, at_raise, seen, debug_log>>

ProcessInit ==
    ProcessIdle /\ TracksIdle /\ MaskIdle /\ ResolverIdle /\ BridgeIdle

ProcessNext ==
    \/ ProcSetup
    \/ ProcFetch
    \/ ProcInitial
    \/ ProcUpdate
    \/ ProcExtract
    \/ ProcConnect
    \/ ProcTracks
    \/ ProcDebugFrame
    \/ ProcInterrupt
    \/ ProcValueError
    \/ ProcExcept
    \/ ProcElse
    \/ ProcStatistics
    \/ ProcClose
    \/ ProcCloseIOError
    \/ ProcDebugIOError
    \/ ProcWriteData

SpecProcess == ProcessInit /\ [][ProcessNext]_vars

---------------------------------------------------------------------------
(* _connect_burrow_to_structure: the exit points of a contour, their       *)
(* clusters and one convex hull per cluster.                               *)
(*                                                                         *)
(* A contour point is <<x, y>>; the structure is the line y = 0, so y is   *)
(* the distance of the point to the structure and <<x, 0>> its projection  *)
(* onto the structure.                                                     *)

\* self.params['burrows/width']
BurrowWidth == 3

ContourPoints == (0..MaxPos) \X (1..MaxDepth)

\* the contours: up to MaxPoints points
Contours ==
    {c \in SUBSET ContourPoints : Cardinality(c) >= 1 /\ Cardinality(c) <= MaxPoints}

\* dist = structure.distance(outline)
OutlineDistance(c) == MinOf({p[2] : p \in c})

\* the points with structure.distance(Point(point)) < dist + width / 2
ExitPoints(c) ==
    {p \in c : 2 * p[2] < 2 * OutlineDistance(c) + BurrowWidth}

\* square of the euclidean distance of two points
Dist2(p, q) ==
    (p[1] - q[1]) * (p[1] - q[1]) + (p[2] - q[2]) * (p[2] - q[2])

\* cluster.hierarchy.fclusterdata(exit_points, dist_max, criterion='distance')
\* with the default method 'single': the two nearest clusters are joined
\* as long as their nearest points are not farther apart than dist_max
LinkDist2(A, B) == MinOf({Dist2(p, q) : p \in A, q \in B})

RECURSIVE Agglomerate(_, _)
Agglomerate(cl, t2) ==
    LET pairs == {pr \in cl \X cl :
                     pr[1] # pr[2] /\ LinkDist2(pr[1], pr[2]) <= t2}
    IN  IF pairs = {} THEN cl
        ELSE LET pr == CHOOSE x \in pairs : \A y \in pairs :
                           LinkDist2(x[1], x[2]) <= LinkDist2(y[1], y[2])
             IN  Agglomerate((cl \ {pr[1], pr[2]}) \cup {pr[1] \cup pr[2]}, t2)

OneCluster(P, t) == {P}

FlatClusters(P, t) == Agglomerate({{p} : p \in P}, t * t)

\* geometry.MultiPoint(points).convex_hull of the points of a cluster and
\* their projections onto the structure
Hull(C) ==
    [points |-> C,
     lo |-> MinOf({p[1] : p \in C}),
     hi |-> MaxOf({p[1] : p \in C})]

\* a call of _connect_burrow_to_structure
BridgeCall ==
    \E c \in Contours :
        /\ contour = c
        /\ exit_points = {}
        /\ cluster_data = {}
        /\ hulls = <<>>
        /\ bpc = "start"
        /\ ResolverIdle
        /\ TracksIdle
        /\ MaskIdle
        /\ ProcessIdle

\* determine burrow points close to the ground
BridgeSelect ==
    /\ bpc = "start"
    /\ exit_points' = ExitPoints(contour)
    /\ bpc' = "cluster"
    /\ UNCHANGED <<contour, cluster_data, hulls>>

\* cluster the points; the clustering of a single observation raises a
\* ValueError
BridgeCluster ==
    /\ bpc = "cluster"
    /\ IF Cardinality(exit_points) < 2
       THEN /\ bpc' = "error"
            /\ UNCHANGED cluster_data
       ELSE /\ bpc' = "hulls"
            /\ cluster_data' = FlatClusters(exit_points, BurrowWidth)
    /\ UNCHANGED <<contour, exit_points, hulls>>

\* for cluster_id in np.unique(data): the hull of the cluster is added to
\* the outline
BridgeHull ==
    /\ bpc = "hulls"
    /\ cluster_data # {}
    /\ LET C == CHOOSE A \in cluster_data : \A B \in cluster_data :
                    MinOf({p[1] * (MaxDepth + 1) + p[2] : p \in A})
                        <= MinOf({p[1] * (MaxDepth + 1) + p[2] : p \in B})
       IN  /\ hulls' = Append(hulls, Hull(C))
           /\ cluster_data' = cluster_data \ {C}
    /\ UNCHANGED <<contour, exit_points, bpc>>

\* the enclosing outline is painted into the mask and returned
BridgeReturn ==
    /\ bpc = "hulls"
    /\ cluster_data = {}
    /\ bpc' = "done"
    /\ UNCHANGED <<contour, exit_points, cluster_data, hulls>>

BridgeNext ==
    \/ BridgeSelect /\ UNCHANGED <<rvars, tvars, mvars, pvars>>
    \/ BridgeCluster /\ UNCHANGED <<rvars, tvars, mvars, pvars>>
    \/ BridgeHull /\ UNCHANGED <<rvars, tvars, mvars, pvars>>
    \/ BridgeReturn /\ UNCHANGED <<rvars, tvars, mvars, pvars>>

SpecBridge == BridgeCall /\ [][BridgeNext]_vars

---------------------------------------------------------------------------
(* Properties of _connect_burrow_to_structure *)

\* every point of A is farther than the burrow width from every point of B
Separated(A, B) ==
    \A p \in A, q \in B : Dist2(p, q) > BurrowWidth * BurrowWidth

\* A is one group: it has no two parts that are farther apart than the
\* burrow width
OneGroup(A) ==
    \A A1 \in SUBSET A : (A1 # {} /\ A1 # A) => ~Separated(A1, A \ A1)

\* C12: when the exit points of a chunk fall into two groups that are
\* farther apart than the burrow width, _connect_burrow_to_structure builds
\* one hull per group: no hull holds points of both groups, and there are
\* exactly two hulls.
C12_OneHullPerGroup ==
    bpc = "done" =>
        \A A \in SUBSET exit_points :
            LET B == exit_points \ A
            IN  (A # {} /\ B # {} /\ Separated(A, B)) =>
                    /\ \A i \in 1..Len(hulls) :
                           hulls[i].points \subseteq A \/ hulls[i].points \subseteq B
                    /\ (OneGroup(A) /\ OneGroup(B)) =>
                           /\ Len(hulls) = 2
                           /\ {hulls[1].points, hulls[2].points} = {A, B}

\* two hulls were built, one of them over two exit points or more
C12_Witness ==
    /\ bpc = "done"
    /\ Len(hulls) = 2
    /\ Cardinality(hulls[1].points) >= 2
    /\ hulls[1].hi < hulls[2].lo

---------------------------------------------------------------------------
(* Properties of the burrow mask *)

\* the number of pixels of the ground region of the frame
GroundPixels == Cardinality(Support(GroundMask(ground)))

\* the pixels of the mask that lie outside the ground region of the frame
OutsideGround == {p \in Support(burrow_mask) : p[2] < ground}

\* C4: if the number of newly flagged pixels of a frame exceeds 10% of the
\* number of ground-region pixels, update_burrow_mask leaves the mask
\* identical.  (The code compares with 10% of the sum of the ground mask,
\* whose ground pixels hold 255.)
C4_AsStated ==
    [][(mpc = "update" /\ mpc' = "extract"
           /\ 10 * ImageSum(image_uint8') > GroundPixels)
         => burrow_mask' = burrow_mask]_vars

\* C8: in every processed frame, after the mask update no mask pixel
\* outside the ground region of the frame is set.
C8_AsStated == mpc = "extract" => OutsideGround = {}

\* C8, for the updates that the safety check does not abort: after the
\* update no mask pixel outside the ground region of the frame is set.
C8_PrunedUnlessAborted ==
    (mpc = "extract" /\ ~update_aborted) => OutsideGround = {}

\* an update that ran to its end on a frame with sky and ground and left
\* burrow pixels in the mask
C8_Witness ==
    /\ mpc = "extract"
    /\ ~update_aborted
    /\ ground \in 1..(Height - 1)
    /\ Support(image_uint8) # {}
    /\ Support(burrow_mask) # {}

\* C9: once the mask is initialised every pixel of it is 0 or 1, after the
\* bootstrap, after updates (aborted or not), after the brightness clearing
\* of the chunk extraction and after the painting of bridges.
C9_MaskBinary ==
    burrow_mask # None => \A p \in Pixels : burrow_mask[p] \in {0, 1}

\* a frame whose update was aborted and in which a bridge was painted
C9_Witness ==
    /\ mpc = "connect"
    /\ update_aborted
    /\ paints = 1
    /\ \E p, q \in Pixels : burrow_mask[p] = 1 /\ burrow_mask[q] = 0

\* C11 as stated: every chunk returned by get_burrow_chunks has at least
\* the minimum area, a mean frame intensity not above the threshold and a
\* centroid within a maximum distance of the ground line (the distance the
\* code tests with is half the ground point distance).
C11_AsStated ==
    mpc = "connect" =>
        \A i \in 1..Len(chunk_queue) :
            LET C == chunk_queue[i]
            IN  /\ Cardinality(C) >= AreaMin
                /\ 10 * SumOver(C, frame)
                       <= (8 * ColorSand + 2 * ColorSky) * Cardinality(C)
                /\ 2 * Abs(YSum(C) - ground * Cardinality(C))
                       <= GroundPointDistance * Cardinality(C)

\* C11: every chunk returned by get_burrow_chunks has at least the minimum
\* area, a mean frame intensity not above the threshold and a centroid that
\* is at least half the ground point distance away from the ground line.
C11_ChunksPassFilters ==
    mpc = "connect" =>
        \A i \in 1..Len(chunk_queue) :
            LET C == chunk_queue[i]
            IN  /\ Cardinality(C) >= AreaMin
                /\ 10 * SumOver(C, frame)
                       <= (8 * ColorSand + 2 * ColorSky) * Cardinality(C)
                /\ 2 * Abs(YSum(C) - ground * Cardinality(C))
                       >= GroundPointDistance * Cardinality(C)

\* a chunk was returned whose centroid lies farther from the ground line
\* than half the ground point distance, beside a ground pixel of sand that
\* is not in the mask
C11_Witness ==
    /\ mpc = "connect"
    /\ paints = 0
    /\ Len(chunk_queue) = 1
    /\ \E p \in Pixels : p \notin chunk_queue[1] /\ frame[p] = ColorSand
                            /\ burrow_mask[p] = 0 /\ p[2] >= ground
    /\ 2 * Abs(YSum(chunk_queue[1]) - ground * Cardinality(chunk_queue[1]))
           > GroundPointDistance * Cardinality(chunk_queue[1])

\* update_burrow_mask runs, to its end or to the early return
UpdateStep == mpc = "update" /\ mpc' = "extract"

\* the pixels of the ground region of the current frame
GroundRegion == Support(GroundMask(ground))

\* C23: update_burrow_mask clears no pixel of the ground region: a pixel
\* of the ground region that is set in the mask before the call is set after
\* it, whether the update returns early or runs to its end.
C23_NoClearingInsideGround ==
    [][UpdateStep =>
          \A p \in GroundRegion : burrow_mask[p] # 0 => burrow_mask'[p] # 0]_vars

\* an update that ran to its end and flagged no pixel has left a mask with
\* pixels in the ground region next to pixels that are not set: they were
\* set before the call
C23_Witness ==
    /\ mpc = "extract"
    /\ ~update_aborted
    /\ Support(image_uint8) = {}
    /\ Support(burrow_mask) # {}
    /\ Support(burrow_mask) # GroundRegion

\* get_burrow_chunks runs
ExtractStep == mpc = "extract" /\ mpc' = "connect"

\* the components of the mask that get_burrow_chunks labels
Labelled == SeqToSet(Components(Support(burrow_mask)))

\* the mean of the frame over the component exceeds
\* 0.8 * sand + 0.2 * sky
MeanExceedsThreshold(C) ==
    10 * SumOver(C, frame) > (8 * ColorSand + 2 * ColorSky) * Cardinality(C)

\* all pixels of the component are 0 after the call
Cleared(C) == \A p \in C : burrow_mask'[p] = 0

\* no pixel of the component is changed by the call
Untouched(C) == \A p \in C : burrow_mask'[p] = burrow_mask[p]

\* C24 as stated: a component is cleared if and only if the mean of the
\* frame over it exceeds the threshold, and all other pixels are unchanged.
C24_AsStated ==
    [][ExtractStep =>
          \A C \in Labelled :
              /\ Cleared(C) <=> MeanExceedsThreshold(C)
              /\ ~MeanExceedsThreshold(C) => Untouched(C)]_vars

\* C24: get_burrow_chunks clears a component if and only if the component
\* has at least the minimal area, its centroid is at least half the
\* ground-point distance from the ground line, and the mean of the frame
\* over it exceeds the threshold; every other component and every pixel that
\* was 0 is unchanged.
C24_BrightChunksCleared ==
    [][ExtractStep =>
          /\ \A C \in Labelled :
                 /\ Cleared(C) <=>
                        /\ Cardinality(C) >= AreaMin
                        /\ ~CentroidNearerThan(C, ground, GroundPointDistance, 2)
                        /\ MeanExceedsThreshold(C)
                 /\ ~Cleared(C) => Untouched(C)
          /\ \A p \in Pixels : burrow_mask[p] = 0 => burrow_mask'[p] = 0]_vars

\* the extraction has run and has left a component of at least the minimal
\* area over which the frame is brighter than the threshold: its centroid
\* is too close to the ground line
C24_Witness ==
    /\ mpc = "connect"
    /\ paints = 0
    /\ \E C \in Labelled :
           /\ Cardinality(C) >= AreaMin
           /\ MeanExceedsThreshold(C)
           /\ CentroidNearerThan(C, ground, GroundPointDistance, 2)

\* get_initial_burrow_mask is called
BootstrapStep == mpc = "initial"

\* C25 as stated: the loop of get_initial_burrow_mask ends through its
\* condition for every first frame, and every component of the mask it
\* leaves has an area of at most ten times the minimal burrow area.
C25_AsStated ==
    [][BootstrapStep =>
          /\ mpc' = "update"
          /\ \A C \in SeqToSet(Components(Support(burrow_mask'))) :
                 Cardinality(C) <= 10 * AreaMin]_vars

---------------------------------------------------------------------------
(* Properties of process *)

\* C10: if a KeyboardInterrupt or SystemExit is raised in the frame loop,
\* process ends normally with the status 'Partly finished third pass', the
\* statistics recorded and the data written; no further frame is fetched
\* and tracks, mask and background are as they were when the interrupt was
\* raised.
C10_InterruptKeepsResults ==
    (ppc \in {"done", "raised"} /\ exc \in Interrupts) =>
        /\ ppc = "done"
        /\ status = "Partly finished third pass"
        /\ statistics = [frames_analyzed |-> frame_id + 1]
        /\ video = "closed"
        /\ written = [status |-> status, tracks |-> tracks,
                      statistics |-> statistics]
        /\ frames_done = at_raise.frames_done
        /\ tracks = at_raise.tracks
        /\ burrow_mask = at_raise.burrow_mask
        /\ background_avg = at_raise.background_avg

\* a SystemExit in the middle of the second or a later frame, when a track
\* and a mask with burrow pixels exist
C10_Witness ==
    /\ ppc = "done"
    /\ exc = "SystemExit"
    /\ frames_done >= 2
    /\ mpc \in {"extract", "connect", "tracks"}
    /\ tracks # <<>>
    /\ burrow_mask # None
    /\ Support(burrow_mask) # {}

\* the head of the frame loop has taken the next frame
FetchStep == ppc = "loop" /\ frames_done' = frames_done + 1

C27_AsStated ==
    /\ exc = "IOError" => ppc # "raised"
    /\ ppc \in {"done", "raised"} => written # None

\* the IOError raised while the debug video is closed is caught and logged
CloseFailureLogged ==
    debug_log # <<>> => ppc \in {"write_data", "done", "raised"} /\ video = "closed"

\* update_burrow_mask returns early in this step
AbortStep == mpc = "update" /\ update_aborted'

\* a step of find_burrows in a frame whose mask update was aborted
AbortedFrameStep == update_aborted /\ ppc' = "loop" /\ mpc' # mpc

\* C29: an update that the safety check aborts leaves the burrow mask of
\* the previous frame as it is and find_burrows goes on in the same frame:
\* the chunks are extracted from that mask, connected, and the burrows are
\* matched against the tracks before the iteration ends
C29_AbortSkipsOnlyUpdate ==
    /\ [][AbortStep => burrow_mask' = burrow_mask /\ mpc' = "extract"]_vars
    /\ [][AbortedFrameStep =>
            \/ /\ mpc = "extract" /\ mpc' = "connect"
               /\ chunk_queue' = GetBurrowChunks(burrow_mask, frame, ground).chunks
            \/ mpc = "connect" /\ mpc' = "tracks"
            \/ /\ mpc = "tracks" /\ mpc' = "debug"
               /\ tracks' = AddBurrowsToTracks(tracks, frame_id, found).trs
               /\ Len(burrow_log') = frames_done
            \/ mpc = "debug" /\ mpc' = "idle"]_vars
    /\ [](update_aborted => mpc \in {"extract", "connect", "tracks", "debug"})

\* the update of a frame was aborted and the burrows found in the old mask
\* were matched against the tracks
C29_Witness ==
    /\ ppc = "loop"
    /\ mpc = "debug"
    /\ update_aborted
    /\ Support(burrow_mask) # {}
    /\ found # <<>>
    /\ Len(burrow_log) = frames_done
    /\ tracks # <<>>

\* update_burrow_mask has returned in the first frame of the video
FirstUpdateDone == ppc = "loop" /\ frames_done = 1 /\ mpc = "extract"

\* C30: in the first frame the background is the frame, the update flags
\* no pixel and is not aborted, and the burrow mask after it is the
\* bootstrap mask, closed and pruned above the ground line
C30_FirstFrameFlagsNothing ==
    FirstUpdateDone =>
        /\ \A p \in Pixels : background_avg[p] = BgScale * frame[p]
        /\ Support(image_uint8) = {}
        /\ ~update_aborted
        /\ burrow_mask = ClearAboveGround(
                             MorphClose(InitialBurrowMask(frame, ground).mask),
                             GroundMask(ground))
        /\ Support(burrow_mask) \subseteq
              Support(MorphClose(InitialBurrowMask(frame, ground).mask))

\* the first update is done and the bootstrap has left burrow pixels
C30_Witness ==
    /\ FirstUpdateDone
    /\ Support(burrow_mask) # {}
    /\ Support(burrow_mask) # Pixels

---------------------------------------------------------------------------
(* Properties of add_burrows_to_tracks *)

IsPrefix(s, t) == Len(s) <= Len(t) /\ \A i \in 1..Len(s) : s[i] = t[i]

\* every frame so far gave exactly one burrow, and it intersects the burrow
\* of the frame before
SingleBurrowChain ==
    /\ \A f \in 1..Len(burrow_log) : Len(burrow_log[f]) = 1
    /\ \A f \in 2..Len(burrow_log) :
           Intersects(burrow_log[f][1], burrow_log[f - 1][1])

\* C5: after K frames that each gave one burrow intersecting the burrow of
\* the frame before, there is exactly one track, it is active and its
\* history has between 1 and K entries.
C5_TrackContinuity ==
    (frames_done >= 1 /\ SingleBurrowChain) =>
        /\ Len(tracks) = 1
        /\ tracks[1].active
        /\ Len(tracks[1].hist) >= 1
        /\ Len(tracks[1].hist) <= frames_done

\* three frames with one burrow each, the burrow moving from cell 1 to cell 2
C5_Witness ==
    /\ frames_done = 3
    /\ SingleBurrowChain
    /\ burrow_log[1][1] = {1}
    /\ burrow_log[3][1] = {2}
    /\ Len(tracks) = 1
    /\ Len(tracks[1].hist) = 3

\* the burrows of the frame just processed that intersect the last outline
\* of a track that was inactive before the frame
ReappearingBurrows ==
    {j \in 1..Len(match_log') :
        \E i \in 1..Len(tracks) :
            /\ ~tracks[i].active
            /\ Intersects(burrow_log'[Len(burrow_log')][j], TrackLast(tracks[i]))}

InactiveIsFinal ==
    \A i \in 1..Len(tracks) :
        ~tracks[i].active => (Len(tracks') >= i /\ tracks'[i] = tracks[i])

\* C6 as stated: an inactive track stays as it is, and every burrow that
\* intersects the last outline of an inactive track starts a new track.
C6_AsStated ==
    [][frames_done' # frames_done =>
          /\ InactiveIsFinal
          /\ \A j \in ReappearingBurrows : match_log'[j] = 0]_vars

\* C6 amended: an inactive track stays as it is; a burrow that intersects
\* its last outline starts a new track or is matched to a track that was
\* active when the frame started.
C6_InactiveNeverExtended ==
    [][frames_done' # frames_done =>
          /\ InactiveIsFinal
          /\ \A j \in ReappearingBurrows :
                 \/ match_log'[j] = 0
                 \/ /\ match_log'[j] \in 1..Len(tracks)
                    /\ tracks[match_log'[j]].active]_vars

\* a burrow equal to the last outline of an inactive track has started a
\* new track
C6_Witness ==
    /\ frames_done = 3
    /\ Len(tracks) = 2
    /\ ~tracks[1].active
    /\ tracks[2].active
    /\ tracks[2].hist = << <<frame_id, TrackLast(tracks[1])>> >>
    /\ tracks[1].hist = << <<0, TrackLast(tracks[1])>> >>

\* C7: the track list is append-only: a frame removes or reorders no track,
\* and the history of every track before the frame is a prefix of its
\* history after the frame.
C7_TracksAppendOnly ==
    [][/\ Len(tracks') >= Len(tracks)
       /\ \A i \in 1..Len(tracks) : IsPrefix(tracks[i].hist, tracks'[i].hist)]_vars

\* beside an inactive track, the last frame has extended one track and
\* created another
C7_Witness ==
    /\ Len(tracks) = 3
    /\ ~tracks[1].active
    /\ Len(tracks[2].hist) = 2
    /\ tracks[3].hist[1][1] = frame_id
    /\ tracks[2].hist[2][1] = frame_id
    /\ frame_id > 0

\* a frame has been handled by add_burrows_to_tracks
FrameStep == frames_done' # frames_done

\* the burrows of the frame that has just been handled
NewBurrows == burrow_log'[Len(burrow_log')]

\* the most recent outline of track i after the first j burrows of the frame
\* have been handled: a burrow that matched the track is its last outline
\* from then on, appended or equal to the one before
RECURSIVE LastWhen(_, _, _, _, _)
LastWhen(trs, log, bs, i, j) ==
    IF j = 0 THEN TrackLast(trs[i])
    ELSE IF log[j] = i THEN bs[j]
         ELSE LastWhen(trs, log, bs, i, j - 1)

\* the tracks of the snapshot whose most recent outline burrow j intersects
\* when it is handled
Hits(j) ==
    {i \in 1..Len(tracks) :
        /\ tracks[i].active
        /\ Intersects(NewBurrows[j], LastWhen(tracks, match_log', NewBurrows, i, j - 1))}

\* the entries that the first j burrows of the frame add to track i
RECURSIVE Appended(_, _)
Appended(i, j) ==
    IF j = 0 THEN <<>>
    ELSE Appended(i, j - 1) \o
         (IF /\ match_log'[j] = i
             /\ NewBurrows[j] # LastWhen(tracks, match_log', NewBurrows, i, j - 1)
          THEN << <<frame_id', NewBurrows[j]>> >>
          ELSE <<>>)

\* C19: each burrow of a frame is matched to at most one track: the first
\* track of the snapshot of active tracks whose most recent outline it
\* intersects. It is appended to that track with the current frame index
\* exactly if it differs from that outline; no other track is changed for
\* it, and a track of the snapshot stays active exactly if some burrow of
\* the frame was matched to it.
C19_FirstIntersectingTrack ==
    [][FrameStep =>
          /\ Len(match_log') = Len(NewBurrows)
          /\ \A j \in 1..Len(NewBurrows) :
                 match_log'[j] = IF Hits(j) = {} THEN 0 ELSE MinOf(Hits(j))
          /\ \A i \in 1..Len(tracks) :
                 /\ tracks'[i].hist = tracks[i].hist \o Appended(i, Len(NewBurrows))
                 /\ tracks[i].active =>
                        (tracks'[i].active <=>
                            \E j \in 1..Len(NewBurrows) : match_log'[j] = i)]_vars

\* two tracks were active, a burrow that intersects both was appended to the
\* first one, and the second one was not extended
C19_Witness ==
    /\ frames_done = 2
    /\ Len(tracks) = 2
    /\ tracks[1].hist = << <<0, {1}>>, <<frame_id, {1, 2}>> >>
    /\ tracks[2].hist = << <<0, {2}>> >>
    /\ tracks[1].active
    /\ ~tracks[2].active
    /\ match_log = <<1>>

\* the burrows of the frame that intersect no track of the snapshot when
\* they are handled, in the order of the frame
Unmatched == SelectSeq([j \in 1..Len(NewBurrows) |-> j], LAMBDA j : Hits(j) = {})

\* C20: every burrow of a frame that intersects the most recent outline of
\* no track of the snapshot of active tracks creates exactly one new track,
\* active and with the single entry (current frame index, burrow); the new
\* tracks are appended in the order of the burrows, and a burrow that
\* matched a track creates none.
C20_UnmatchedStartsTrack ==
    [][FrameStep =>
          /\ Len(tracks') = Len(tracks) + Len(Unmatched)
          /\ \A n \in 1..Len(Unmatched) :
                 /\ tracks'[Len(tracks) + n].hist =
                        << <<frame_id', NewBurrows[Unmatched[n]]>> >>
                 /\ tracks'[Len(tracks) + n].active]_vars

\* of the two burrows of the last frame the first matched the only track
\* and the second started a new track at the current frame index
C20_Witness ==
    /\ frames_done = 2
    /\ frame_id = 1
    /\ Len(burrow_log[2]) = 2
    /\ match_log = <<1, 0>>
    /\ Len(tracks) = 2
    /\ tracks[2].hist = << <<1, burrow_log[2][2]>> >>
    /\ tracks[2].active

\* the tracks that were active when the frame started
Snapshot == {i \in 1..Len(tracks) : tracks[i].active}

\* C21: when add_burrows_to_tracks returns, a track that was active at the
\* start of the frame is active if and only if a burrow of the frame
\* matched it, and a track that was inactive stays inactive; a frame without
\* burrows leaves no track of the snapshot active.
C21_ActiveIffMatched ==
    [][FrameStep =>
          /\ \A i \in Snapshot :
                 tracks'[i].active <=>
                     \E j \in 1..Len(NewBurrows) : Hits(j) # {} /\ MinOf(Hits(j)) = i
          /\ \A i \in (1..Len(tracks)) \ Snapshot : ~tracks'[i].active
          /\ NewBurrows = <<>> =>
                 /\ Len(tracks') = Len(tracks)
                 /\ \A i \in 1..Len(tracks') : ~tracks'[i].active]_vars

\* a frame without burrows has deactivated the two tracks of the frame
\* before
C21_Witness ==
    /\ frames_done = 2
    /\ burrow_log[2] = <<>>
    /\ Len(tracks) = 2
    /\ \A i \in 1..2 : ~tracks[i].active /\ tracks[i].hist[1][1] = 0

\* C22 as stated: in every track the frame indices of the entries are
\* strictly increasing, so that a history holds at most one outline per
\* frame.
C22_AsStated ==
    \A i \in 1..Len(tracks) :
        \A e \in 1..(Len(tracks[i].hist) - 1) :
            tracks[i].hist[e][1] < tracks[i].hist[e + 1][1]

\* the tracks that the frame has created
Created == (Len(tracks) + 1)..Len(tracks')

\* C28: a track created during a frame is matched by no burrow of that
\* frame and is active when add_burrows_to_tracks returns; two burrows of
\* one frame that match no track of the snapshot create two tracks, also
\* when they intersect each other.
C28_NewTracksOutsideSnapshot ==
    [][FrameStep =>
          /\ \A j \in 1..Len(NewBurrows) : match_log'[j] \notin Created
          /\ \A i \in Created :
                 /\ tracks'[i].active
                 /\ Len(tracks'[i].hist) = 1
          /\ \A j, k \in 1..Len(NewBurrows) :
                 (j < k /\ Hits(j) = {} /\ Hits(k) = {}) =>
                     \E a, b \in Created :
                         /\ a < b
                         /\ tracks'[a].hist = << <<frame_id', NewBurrows[j]>> >>
                         /\ tracks'[b].hist = << <<frame_id', NewBurrows[k]>> >>]_vars

\* the first frame gave two burrows that intersect each other: there are
\* two active tracks with one entry each
C28_Witness ==
    /\ frames_done = 1
    /\ Len(burrow_log[1]) = 2
    /\ Intersects(burrow_log[1][1], burrow_log[1][2])
    /\ Len(tracks) = 2
    /\ \A i \in 1..2 : tracks[i].active /\ tracks[i].hist = << <<0, burrow_log[1][i]>> >>

---------------------------------------------------------------------------
(* Properties of connect_burrow_chunks *)

NumChunks == Len(burrow_chunks)

\* C1: when connect_burrow_chunks returns for a non-empty chunk list, the
\* disconnected list is empty and every emitted Burrow holds at least one
\* chunk that was linked directly to the ground line (in step 2 or step 3).
C1_EveryBurrowGroundLinked ==
    (rpc = "done" /\ NumChunks > 0) =>
        /\ disconnected = <<>>
        /\ Len(burrows) > 0
        /\ \A i \in 1..Len(burrows) : burrows[i].parts \cap direct # {}

\* a call that merged two chunks, one after the other, into one burrow
C1_Witness ==
    /\ rpc = "done"
    /\ NumChunks = 3
    /\ iterations = 2
    /\ \E i \in 1..Len(burrows) : Cardinality(burrows[i].parts \ direct) = 2

\* C2: the merge loop runs at most N times for N chunks: every iteration
\* takes exactly one index out of the disconnected list and none is added,
\* and while the list is not empty there is a connected chunk to merge with.
C2_MergeLoopBounded ==
    /\ iterations <= NumChunks
    /\ rpc \in {"loop", "done"} =>
           /\ iterations + Len(disconnected) = NumChunks - Cardinality(direct)
           /\ Cardinality(SeqToSet(disconnected)) = Len(disconnected)
           /\ SeqToSet(disconnected) \cap SeqToSet(connected) = {}
           /\ SeqToSet(disconnected) \cup SeqToSet(connected) = 1..NumChunks
    /\ (rpc = "loop" /\ LoopRuns(disconnected)) => connected # <<>>
    /\ rpc = "done" => disconnected = <<>>

\* the loop has run as often as it can for three chunks
C2_Witness ==
    /\ rpc = "done"
    /\ NumChunks = 3
    /\ iterations = 2

\* one chunk on the ground line and two chunks chained behind it
ChainInput ==
    /\ NumChunks = 3
    /\ ground_dist[1] = 0
    /\ burrow_dist[1][2] < burrow_dist[1][3]
    /\ burrow_dist[1][2] <= ground_dist[2]
    /\ burrow_dist[2][3] <= ground_dist[3]

\* C3: one Burrow is emitted per chunk that was linked directly to the
\* ground, every chunk is part of exactly one Burrow, and a chain of three
\* chunks behind one ground-adjacent chunk gives one Burrow of three chunks.
C3_OneBurrowPerGroundChunk ==
    (rpc = "done" /\ NumChunks > 0) =>
        /\ Len(burrows) = Cardinality(direct)
        /\ \A i \in 1..Len(burrows) : Cardinality(burrows[i].parts \cap direct) = 1
        /\ \A k \in 1..NumChunks :
               Cardinality({i \in 1..Len(burrows) : k \in burrows[i].parts}) = 1
        /\ ChainInput => Len(burrows) = 1 /\ burrows[1].parts = {1, 2, 3}

\* the chain case has been resolved
C3_Witness ==
    /\ rpc = "done"
    /\ ChainInput
    /\ Len(burrows) = 1
    /\ burrows[1].parts = {1, 2, 3}

\* the entries of the distance matrix for the pairs the loop can choose from
Candidates == SeqToSet(disconnected) \X SeqToSet(connected)

\* the position of a chunk index in a list without repetition
PosIn(list, c) == CHOOSE k \in 1..Len(list) : list[k] = c

\* an iteration of the merge loop is the step that counts it
MergeIteration == iterations' = iterations + 1

\* C14 as stated: the chosen pair has the minimal distance, and among equal
\* minima it has the lowest disconnected chunk index and then the lowest
\* connected chunk index.
C14_AsStated ==
    [][MergeIteration =>
          LET c1 == pair'[1]
              c2 == pair'[2]
          IN  /\ <<c1, c2>> \in Candidates
              /\ \A q \in Candidates :
                     /\ burrow_dist[c1][c2] <= burrow_dist[q[1]][q[2]]
                     /\ burrow_dist[c1][c2] = burrow_dist[q[1]][q[2]] =>
                            \/ c1 < q[1]
                            \/ c1 = q[1] /\ c2 <= q[2]]_vars

\* C14: each iteration of the merge loop chooses a pair of a disconnected and
\* a connected chunk whose distance in the matrix of step 1 is minimal over
\* all such pairs; among equal minima it takes the lowest disconnected chunk
\* index and then the chunk that stands first in the list connected, which
\* is the one that was connected earliest.
C14_NearestPairChosen ==
    [][MergeIteration =>
          LET c1 == pair'[1]
              c2 == pair'[2]
          IN  /\ <<c1, c2>> \in Candidates
              /\ burrow_dist' = burrow_dist
              /\ \A q \in Candidates :
                     /\ burrow_dist[c1][c2] <= burrow_dist[q[1]][q[2]]
                     /\ burrow_dist[c1][c2] = burrow_dist[q[1]][q[2]] =>
                            \/ c1 < q[1]
                            \/ /\ c1 = q[1]
                               /\ PosIn(connected, c2) <= PosIn(connected, q[2])]_vars

\* the second iteration had two connected chunks at the same distance and
\* took the one that stands first in the list, which has the higher index
C14_Witness ==
    /\ iterations = 2
    /\ pair = <<3, 2>>
    /\ connected = <<2, 1, 3>>
    /\ burrow_dist[3][2] = burrow_dist[3][1]

\* the chunks that have been merged into the outline of slot j
GroupOf(j) == burrow_chunks[j].parts

\* C15: from the first merge iteration on, all slots of the chunks of one
\* merged group hold one and the same outline object and slots of different
\* groups hold different objects, so that the deduplication by identity
\* returns exactly one Burrow per merged group.
C15_GroupSharesOutline ==
    rpc \in {"loop", "done"} =>
        /\ \A j \in 1..NumChunks : j \in GroupOf(j)
        /\ \A k, j \in 1..NumChunks :
               k \in GroupOf(j) <=> burrow_chunks[k].id = burrow_chunks[j].id
        /\ rpc = "done" =>
               /\ Len(burrows) = Cardinality({GroupOf(j) : j \in 1..NumChunks})
               /\ \A j \in 1..NumChunks :
                      Cardinality({i \in 1..Len(burrows) :
                                      burrows[i].id = burrow_chunks[j].id}) = 1

\* the second merge joined chunk 3 to an outline that two slots held already
C15_Witness ==
    /\ rpc = "done"
    /\ iterations = 2
    /\ pair[1] = 3
    /\ \A k \in 1..3 : burrow_chunks[k].id = burrow_chunks[3].id
    /\ Len(burrows) = 1

\* the chunks other than k
Others(k) == (1..NumChunks) \ {k}

\* C16: after step 2 a chunk is in the list connected if and only if its
\* ground distance is strictly less than its distance to every other chunk,
\* and in the list disconnected otherwise; a chunk whose ground distance
\* equals its smallest chunk distance is disconnected, and a chunk that is
\* alone in the list is connected.
C16_StrictlyClosestToGround ==
    rpc = "force" =>
        /\ \A k \in 1..NumChunks :
               /\ k \in SeqToSet(connected) <=>
                      \A j \in Others(k) : ground_dist[k] < burrow_dist[k][j]
               /\ k \in SeqToSet(disconnected) <=> k \notin SeqToSet(connected)
               /\ (\E j \in Others(k) : ground_dist[k] = burrow_dist[k][j]) =>
                      k \in SeqToSet(disconnected)
        /\ NumChunks = 1 => connected = <<1>>

\* step 2 has put a chunk whose ground distance equals its smallest chunk
\* distance into disconnected and another chunk into connected
C16_Witness ==
    /\ rpc = "force"
    /\ connected # <<>>
    /\ \E k \in SeqToSet(disconnected) :
           /\ \E j \in Others(k) : ground_dist[k] = burrow_dist[k][j]
           /\ \A j \in Others(k) : ground_dist[k] <= burrow_dist[k][j]

\* the outline of slot k is one that _connect_burrow_to_structure returned
\* for the ground line (the call also paints it into the burrow mask)
Bridged(k) == burrow_chunks[k].to_ground /\ burrow_chunks[k].id > NumChunks

ForceStep == rpc = "force" /\ rpc' \in {"loop", "assertion_error"}

\* the chunk with the minimal ground distance, the lowest index on ties
NearestToGround(k) ==
    /\ \A j \in 1..NumChunks : ground_dist[k] <= ground_dist[j]
    /\ \A j \in 1..(k - 1) : ground_dist[j] > ground_dist[k]

\* C18: when step 2 has left the list connected empty, step 3 bridges
\* exactly one chunk to the ground line, the one with the minimal ground
\* distance (the lowest index on ties), and moves it from disconnected to
\* connected; otherwise step 3 changes nothing. The assertion holds, and the
\* merge loop starts with a non-empty list connected that is disjoint from
\* disconnected and covers all chunk indices together with it.
C18_ForcedGroundLink ==
    [][ForceStep =>
          /\ IF connected = <<>>
             THEN \E k \in 1..NumChunks :
                      /\ NearestToGround(k)
                      /\ connected' = <<k>>
                      /\ disconnected' = SelectSeq(disconnected, LAMBDA c : c # k)
                      /\ Len(disconnected') = Len(disconnected) - 1
                      /\ burrow_chunks'[k].to_ground
                      /\ burrow_chunks'[k].id > NumChunks
                      /\ \A j \in 1..NumChunks \ {k} :
                             burrow_chunks'[j] = burrow_chunks[j]
             ELSE /\ connected' = connected
                  /\ disconnected' = disconnected
                  /\ burrow_chunks' = burrow_chunks
          /\ rpc' = "loop"
          /\ connected' # <<>>
          /\ SeqToSet(connected') \cap SeqToSet(disconnected') = {}
          /\ SeqToSet(connected') \cup SeqToSet(disconnected') = 1..NumChunks]_vars

\* no chunk was closest to the ground, two chunks shared the minimal ground
\* distance, and step 3 has bridged the first of them
C18_Witness ==
    /\ rpc = "loop"
    /\ iterations = 0
    /\ NumChunks = 3
    /\ \A k \in 1..NumChunks : \E j \in Others(k) : ground_dist[k] >= burrow_dist[k][j]
    /\ ground_dist[2] = ground_dist[3]
    /\ ground_dist[1] > ground_dist[2]
    /\ connected = <<2>>
    /\ disconnected = <<1, 3>>
    /\ Bridged(2)

=============================================================================
